---------------------------- MODULE Spec2Model ----------------------------
(***************************************************************************)
(* The call monitor of fastchat/serve/call_monitor.py: a background task   *)
(* (Monitor.update_stats) that rebuilds two in-memory indices from the     *)
(* newest log files of each log directory, and the FastAPI handlers that   *)
(* answer quota and statistics queries from them.                          *)
(*                                                                         *)
(* The task and the handlers run on one asyncio event loop: a handler runs *)
(* only while the task is suspended at its await (or has ended).  The log  *)
(* producers and the clock are other processes and move at any time.       *)
(***************************************************************************)
EXTENDS Integers, Sequences, FiniteSets, TLC

VARIABLES
    fs,                             \* log directory -> its *.json files, oldest first by os.path.getctime;
                                    \* a file is a sequence of lines
    born,                           \* log directory -> for each of these files, its rank by creation (1 = created first)
    src_up,                         \* log directory -> whether the directory exists
    src_readable,                   \* log directory -> whether its files can be opened for reading
    now,                            \* time.time(), in seconds
    ticks,                          \* how often the clock has advanced (bounds the model)
    appends,                        \* how often a producer has written (bounds the model)
    log_dir_list,                   \* Monitor.log_dir_list
    model_call,                     \* Monitor.model_call
    user_call,                      \* Monitor.user_call
    model_call_stats_hour,          \* Monitor.model_call_stats_hour
    model_call_stats_day,           \* Monitor.model_call_stats_day
    user_call_stats_hour,           \* Monitor.user_call_stats_hour
    user_call_stats_day,            \* Monitor.user_call_stats_day
    attrs,                          \* the cached-view attributes that exist on the Monitor object
    model_call_limit_global,        \* Monitor.model_call_limit_global
    model_call_day_limit_per_user,  \* Monitor.model_call_day_limit_per_user
    task,                           \* the update_stats coroutine: its position, its locals, the events it read
    resp,                           \* the HTTP response in flight, NoResponse when there is none
    client                          \* model -> the limit the callers last set with success, and
                                    \* how many times they did (counted up to 2)

vars == <<fs, born, src_up, src_readable, now, ticks, appends, log_dir_list, client, model_call, user_call, model_call_stats_hour,
          model_call_stats_day, user_call_stats_hour, user_call_stats_day,
          attrs, model_call_limit_global, model_call_day_limit_per_user,
          task, resp>>

monitor_vars == <<model_call, user_call, model_call_stats_hour,
                  model_call_stats_day, user_call_stats_hour,
                  user_call_stats_day, attrs>>

limit_vars == <<model_call_limit_global, model_call_day_limit_per_user>>

env_vars == <<fs, born, src_up, src_readable, now, ticks, appends>>

fixed_vars == <<log_dir_list>>

-----------------------------------------------------------------------------
(* Program constants *)

REFRESH_INTERVAL_SEC == 300

NUM_FILE == 2

DEFAULT_MOST_RECENT_MIN == 60

\* a slip: the day is given in hours where minutes are expected
DAY_MIN_in_hours == 24 * 1

\* lines 122-124 and 128-130: most_recent_min=24 * 60
DAY_MIN == 24 * 60

DEFAULT_TOP_K == 20

UNLIMITED == -1

GLOBAL_LIMIT_M1 == 100

GLOBAL_LIMIT_M2 == 300

DAY_LIMIT_M1 == 5

(* Bounds of the model *)

MaxAppends == 2

MaxFiles == 3

MaxTicks == 2

T0 == 200000

-----------------------------------------------------------------------------
(* The bounded universe *)

M1 == "gpt-4-1106-preview"      \* in both limit tables

M2 == "yi-large"                \* in the global table only

M3 == "nonexistent-model"       \* in neither table

Models == {M1, M2, M3}

Users == {"u1", "u2"}

LOG_DIR_LIST == <<"server0", "server1">>     \* the first two of lines 11-30

Dirs == {LOG_DIR_LIST[i] : i \in 1..Len(LOG_DIR_LIST)}

None == "None"                  \* Python's None, for an optional model argument

NonNumeric == -1                \* a "tstamp" that is not a JSON number (a string, null)

NoK == <<>>                     \* top_k=None; top_k=k is <<k>>

-----------------------------------------------------------------------------
(* Python dicts keep insertion order: a dict is a sequence of <<key, value>> *)

EmptyDict == <<>>

Has(d, k) == \E i \in 1..Len(d) : d[i][1] = k

Get(d, k) == d[CHOOSE i \in 1..Len(d) : d[i][1] = k][2]

Put(d, k, v) ==
    IF Has(d, k)
    THEN [i \in 1..Len(d) |-> IF d[i][1] = k THEN <<k, v>> ELSE d[i]]
    ELSE Append(d, <<k, v>>)

KeySet(d) == {d[i][1] : i \in 1..Len(d)}

Min2(a, b) == IF a <= b THEN a ELSE b

Max2(a, b) == IF a >= b THEN a ELSE b

\* seq[:k], with Python's meaning of a negative k
Slice(seq, k) ==
    IF k >= 0 THEN SubSeq(seq, 1, Min2(k, Len(seq)))
    ELSE SubSeq(seq, 1, Max2(Len(seq) + k, 0))

RECURSIVE InsertDesc(_, _, _)
\* x into s, a sequence of [k, w] sorted by w descending, after every element of equal w
InsertDesc(s, x, i) ==
    IF i > Len(s) THEN Append(s, x)
    ELSE IF s[i].w < x.w
         THEN SubSeq(s, 1, i - 1) \o <<x>> \o SubSeq(s, i, Len(s))
         ELSE InsertDesc(s, x, i + 1)

RECURSIVE SortedDesc(_)
\* sorted(..., key=w, reverse=True) of a sequence of [k, w]: stable, equal w keep their order
SortedDesc(seq) ==
    IF seq = <<>> THEN <<>>
    ELSE InsertDesc(SortedDesc(SubSeq(seq, 1, Len(seq) - 1)), seq[Len(seq)], 1)

RECURSIVE SumSeq(_)
SumSeq(s) == IF s = <<>> THEN 0 ELSE s[1] + SumSeq(Tail(s))

RECURSIVE Concat(_)
Concat(ss) == IF ss = <<>> THEN <<>> ELSE ss[1] \o Concat(Tail(ss))

-----------------------------------------------------------------------------
(* Log lines.  A line is [type, model, ip, tstamp, defect]:                   *)
(*   defect = "none"    a JSON object with the four fields;                   *)
(*   defect = "badjson" not valid JSON: json.loads raises;                    *)
(*   defect = "nofield" a JSON object without "type": obj["type"] raises.     *)
(* tstamp = NonNumeric is a well-formed object whose tstamp is not a number.  *)

ChatLine(m, u, t) == [type |-> "chat", model |-> m, ip |-> u, tstamp |-> t, defect |-> "none"]

OtherLine(m, u, t) == [type |-> "upvote", model |-> m, ip |-> u, tstamp |-> t, defect |-> "none"]

BadJsonLine == [type |-> "chat", model |-> M1, ip |-> "u1", tstamp |-> 0, defect |-> "badjson"]

NoFieldLine == [type |-> "chat", model |-> M1, ip |-> "u1", tstamp |-> 0, defect |-> "nofield"]

\* json.loads(line) or obj["type"] raises (lines 106-107)
LineRaises(line) == line.defect # "none"

\* some line of the files raises before the loop ends (lines 104-118)
ParseRaises(lines) == \E i \in 1..Len(lines) : LineRaises(lines[i])

\* a slip: the type of the line is not looked at
IndexLine_any_type(idx, line) ==
    [model_call |->
         Put(idx.model_call, line.model,
             Append(IF Has(idx.model_call, line.model)
                    THEN Get(idx.model_call, line.model) ELSE <<>>,
                    [tstamp |-> line.tstamp, user_id |-> line.ip])),
     user_call |->
         Put(idx.user_call, line.ip,
             Append(IF Has(idx.user_call, line.ip)
                    THEN Get(idx.user_call, line.ip) ELSE <<>>,
                    [tstamp |-> line.tstamp, model |-> line.model]))]

\* a slip: the user index takes the first call of a user only
IndexLine_first_call_only(idx, line) ==
    IF line.type # "chat" THEN idx
    ELSE [model_call |->
              Put(idx.model_call, line.model,
                  Append(IF Has(idx.model_call, line.model)
                         THEN Get(idx.model_call, line.model) ELSE <<>>,
                         [tstamp |-> line.tstamp, user_id |-> line.ip])),
          user_call |->
              IF Has(idx.user_call, line.ip) THEN idx.user_call
              ELSE Put(idx.user_call, line.ip,
                       <<[tstamp |-> line.tstamp, model |-> line.model]>>)]

\* lines 107-118: one line into the two local indices
IndexLine(idx, line) ==
    IF line.type # "chat" THEN idx
    ELSE [model_call |->
              Put(idx.model_call, line.model,
                  Append(IF Has(idx.model_call, line.model)
                         THEN Get(idx.model_call, line.model) ELSE <<>>,
                         [tstamp |-> line.tstamp, user_id |-> line.ip])),
          user_call |->
              Put(idx.user_call, line.ip,
                  Append(IF Has(idx.user_call, line.ip)
                         THEN Get(idx.user_call, line.ip) ELSE <<>>,
                         [tstamp |-> line.tstamp, model |-> line.model]))]

RECURSIVE IndexLines(_, _)
\* lines 102-118: the loop over the lines of the selected files, in order
IndexLines(idx, lines) ==
    IF lines = <<>> THEN idx
    ELSE IndexLines(IndexLine(idx, Head(lines)), Tail(lines))

\* a slip: the cycle goes on from the published indices
EmptyIndex_carried == [model_call |-> model_call, user_call |-> user_call]

\* lines 102-103: the two local indices when the loop starts
EmptyIndex == [model_call |-> EmptyDict, user_call |-> EmptyDict]

-----------------------------------------------------------------------------
(* Windowed statistics: get_model_call_stats and get_user_call_stats as       *)
(* functions of the index, the arguments and the clock value t.               *)

\* a slip: the request at exactly t - min * 60 is dropped too
InWindow_strict(tstamp, most_recent_min, t) == tstamp > t - most_recent_min * 60

\* a slip: the test is inverted, the requests older than the window are kept
InWindow_inverted(tstamp, most_recent_min, t) == tstamp < t - most_recent_min * 60

\* lines 177-181 and 196-197: a request is dropped when tstamp < t - min * 60
InWindow(tstamp, most_recent_min, t) == ~(tstamp < t - most_recent_min * 60)

CountRecent(reqs, most_recent_min, t) ==
    Cardinality({i \in 1..Len(reqs) : InWindow(reqs[i].tstamp, most_recent_min, t)})

\* the comparison of line 178 raises TypeError on a tstamp that is not a number
ModelStatsRaises(mc, target_model) ==
    \E i \in 1..Len(mc) :
        /\ target_model = None \/ mc[i][1] = target_model
        /\ \E j \in 1..Len(mc[i][2]) : mc[i][2][j].tstamp = NonNumeric

\* a slip: the first top_k keys are kept, without ranking them
TopK_unranked(stats, weight, top_k) ==
    IF top_k = NoK THEN stats ELSE Slice(stats, top_k[1])

\* lines 182-186: the top_k keys by value, as a dict in ranked order
TopK(stats, weight, top_k) ==
    IF top_k = NoK THEN stats
    ELSE LET ranked == Slice(SortedDesc([i \in 1..Len(stats) |->
                                 [k |-> stats[i][1], w |-> weight[i]]]), top_k[1])
         IN  [i \in 1..Len(ranked) |-> <<ranked[i].k, Get(stats, ranked[i].k)>>]

\* a slip: a model without a request in the window is left out, as a user is
ModelCallStats_drop_zero(mc, target_model, most_recent_min, top_k, t) ==
    LET kept  == SelectSeq(mc, LAMBDA e : target_model = None \/ e[1] = target_model)
        all   == [i \in 1..Len(kept) |->
                     <<kept[i][1], CountRecent(kept[i][2], most_recent_min, t)>>]
        stats == SelectSeq(all, LAMBDA e : e[2] > 0)
    IN  TopK(stats, [i \in 1..Len(stats) |-> stats[i][2]], top_k)

\* lines 169-187
ModelCallStats(mc, target_model, most_recent_min, top_k, t) ==
    LET kept  == SelectSeq(mc, LAMBDA e : target_model = None \/ e[1] = target_model)
        stats == [i \in 1..Len(kept) |->
                     <<kept[i][1], CountRecent(kept[i][2], most_recent_min, t)>>]
    IN  TopK(stats, [i \in 1..Len(stats) |-> stats[i][2]], top_k)

\* the comparison of line 196 raises TypeError on a tstamp that is not a number
UserStatsRaises(uc) ==
    \E i \in 1..Len(uc) : \E j \in 1..Len(uc[i][2]) : uc[i][2][j].tstamp = NonNumeric

RECURSIVE CallDict_unfiltered(_, _, _, _, _)
\* a slip: the test of target_model (line 198) is missing
CallDict_unfiltered(acc, reqs, target_model, most_recent_min, t) ==
    IF reqs = <<>> THEN acc
    ELSE LET req == Head(reqs)
         IN  CallDict_unfiltered(
                 IF ~InWindow(req.tstamp, most_recent_min, t) THEN acc
                 ELSE Put(acc, req.model,
                          (IF Has(acc, req.model) THEN Get(acc, req.model) ELSE 0) + 1),
                 Tail(reqs), target_model, most_recent_min, t)

RECURSIVE CallDict(_, _, _, _, _)
\* lines 195-202: the per-model counts of one user's requests
CallDict(acc, reqs, target_model, most_recent_min, t) ==
    IF reqs = <<>> THEN acc
    ELSE LET req == Head(reqs)
             skip == \/ ~InWindow(req.tstamp, most_recent_min, t)
                     \/ (target_model # None /\ req.model # target_model)
         IN  CallDict(IF skip THEN acc
                      ELSE Put(acc, req.model,
                               (IF Has(acc, req.model) THEN Get(acc, req.model) ELSE 0) + 1),
                      Tail(reqs), target_model, most_recent_min, t)

\* lines 194-204: one user's entry
UserEntry(reqs, target_model, most_recent_min, t) ==
    LET cd == CallDict(EmptyDict, reqs, target_model, most_recent_min, t)
    IN  [call_dict |-> cd, total_calls |-> SumSeq([i \in 1..Len(cd) |-> cd[i][2]])]

\* a slip: the users without a call in the window are kept
UserCallStats_keep_zero(uc, target_model, most_recent_min, top_k, t) ==
    LET stats == [i \in 1..Len(uc) |->
                     <<uc[i][1], UserEntry(uc[i][2], target_model, most_recent_min, t)>>]
    IN  TopK(stats, [i \in 1..Len(stats) |-> stats[i][2].total_calls], top_k)

\* lines 189-216
UserCallStats(uc, target_model, most_recent_min, top_k, t) ==
    LET all   == [i \in 1..Len(uc) |->
                     <<uc[i][1], UserEntry(uc[i][2], target_model, most_recent_min, t)>>]
        stats == SelectSeq(all, LAMBDA e : e[2].total_calls > 0)
    IN  TopK(stats, [i \in 1..Len(stats) |-> stats[i][2].total_calls], top_k)

-----------------------------------------------------------------------------
(* The Monitor's methods, on the current state *)

\* lines 41-69, restricted to the models of the universe
InitialGlobalLimits == <<<<M1, GLOBAL_LIMIT_M1>>, <<M2, GLOBAL_LIMIT_M2>>>>

\* lines 70-92, restricted to the models of the universe
InitialDayLimits == <<<<M1, DAY_LIMIT_M1>>>>

\* a slip: the limit is read from the static configuration, not from the table
get_model_call_limit_static(model) ==
    IF ~Has(InitialGlobalLimits, model) THEN UNLIMITED
    ELSE Get(InitialGlobalLimits, model)

\* lines 133-136
get_model_call_limit(model) ==
    IF ~Has(model_call_limit_global, model) THEN UNLIMITED
    ELSE Get(model_call_limit_global, model)

\* a slip: the update reports success whatever the model
update_model_call_limit_ok_always(model) == TRUE

\* lines 138-142: the return value
update_model_call_limit_ok(model) == Has(model_call_limit_global, model)

\* a slip: the membership test is missing, the update inserts
update_model_call_limit_table_upsert(model, limit) ==
    Put(model_call_limit_global, model, limit)

\* a slip: the assignment is made to every entry of the table
update_model_call_limit_table_all(model, limit) ==
    IF ~Has(model_call_limit_global, model) THEN model_call_limit_global
    ELSE [i \in 1..Len(model_call_limit_global) |-> <<model_call_limit_global[i][1], limit>>]

\* lines 138-142: the table afterwards
update_model_call_limit_table(model, limit) ==
    IF ~Has(model_call_limit_global, model) THEN model_call_limit_global
    ELSE Put(model_call_limit_global, model, limit)

\* line 147 reads an attribute that update_stats has not assigned yet
is_model_limit_reached_raises(model) ==
    /\ Has(model_call_limit_global, model)
    /\ "model_call_stats_hour" \notin attrs

\* a slip: the threshold is exclusive
is_model_limit_reached_exclusive(model) ==
    IF ~Has(model_call_limit_global, model) THEN FALSE
    ELSE IF ~Has(model_call_stats_hour, model) THEN FALSE
    ELSE Get(model_call_stats_hour, model) > Get(model_call_limit_global, model)

\* a slip: the hourly count is taken from the index at the time of the query
is_model_limit_reached_live(model) ==
    IF ~Has(model_call_limit_global, model) THEN FALSE
    ELSE IF ~Has(model_call, model) THEN FALSE
    ELSE CountRecent(Get(model_call, model), DEFAULT_MOST_RECENT_MIN, now)
             >= Get(model_call_limit_global, model)

\* lines 144-152
is_model_limit_reached(model) ==
    IF ~Has(model_call_limit_global, model) THEN FALSE
    ELSE IF ~Has(model_call_stats_hour, model) THEN FALSE
    ELSE Get(model_call_stats_hour, model) >= Get(model_call_limit_global, model)

\* line 157 reads an attribute that update_stats has not assigned yet
is_user_limit_reached_raises(model, user_id) ==
    /\ Has(model_call_day_limit_per_user, model)
    /\ "user_call_stats_day" \notin attrs

\* a slip: the threshold is exclusive
is_user_limit_reached_exclusive(model, user_id) ==
    IF ~Has(model_call_day_limit_per_user, model) THEN FALSE
    ELSE IF ~Has(user_call_stats_day, user_id) THEN FALSE
    ELSE IF ~Has(Get(user_call_stats_day, user_id).call_dict, model) THEN FALSE
    ELSE Get(Get(user_call_stats_day, user_id).call_dict, model)
             > Get(model_call_day_limit_per_user, model)

\* lines 154-167
is_user_limit_reached(model, user_id) ==
    IF ~Has(model_call_day_limit_per_user, model) THEN FALSE
    ELSE IF ~Has(user_call_stats_day, user_id) THEN FALSE
    ELSE IF ~Has(Get(user_call_stats_day, user_id).call_dict, model) THEN FALSE
    ELSE Get(Get(user_call_stats_day, user_id).call_dict, model)
             >= Get(model_call_day_limit_per_user, model)

\* a slip: the query is answered from the view the cycle cached, whatever the
\* window asked for and however long ago the cycle ran
get_model_call_stats_cached(target_model, most_recent_min, top_k) ==
    model_call_stats_hour

\* lines 169-187, on self.model_call at the current time
get_model_call_stats(target_model, most_recent_min, top_k) ==
    ModelCallStats(model_call, target_model, most_recent_min, top_k, now)

\* lines 189-216, on self.user_call at the current time
get_user_call_stats(target_model, most_recent_min, top_k) ==
    UserCallStats(user_call, target_model, most_recent_min, top_k, now)

\* lines 218-222
get_num_users(most_recent_min) ==
    Len(get_user_call_stats(None, most_recent_min, NoK))

-----------------------------------------------------------------------------
(* The log producers, the file system and the clock *)

\* a producer appends lines to the newest file of its directory
LogAppend(dir, chunk) ==
    /\ src_up[dir]
    /\ fs[dir] # <<>>
    /\ appends < MaxAppends
    /\ fs' = [fs EXCEPT ![dir][Len(fs[dir])] = @ \o chunk]
    /\ appends' = appends + 1
    /\ UNCHANGED <<born, src_up, src_readable, now, ticks, fixed_vars, monitor_vars, limit_vars, task, resp, client>>

\* seq without its i-th element
Without(seq, i) == SubSeq(seq, 1, i - 1) \o SubSeq(seq, i + 1, Len(seq))

\* a producer appends lines to a file that is not the one changed last (the
\* file name depends on the kind of conversation): the write makes
\* this file the latest by os.path.getctime, the time of its last change
LogTouch(dir, i, chunk) ==
    /\ src_up[dir]
    /\ i \in 1..(Len(fs[dir]) - 1)
    /\ appends < MaxAppends
    /\ fs' = [fs EXCEPT ![dir] = Append(Without(@, i), fs[dir][i] \o chunk)]
    /\ born' = [born EXCEPT ![dir] = Append(Without(@, i), born[dir][i])]
    /\ appends' = appends + 1
    /\ UNCHANGED <<src_up, src_readable, now, ticks, fixed_vars, monitor_vars, limit_vars, task, resp, client>>

\* a producer starts a new log file
LogRotate(dir) ==
    /\ src_up[dir]
    /\ Len(fs[dir]) < MaxFiles
    /\ fs[dir] = <<>> \/ fs[dir][Len(fs[dir])] # <<>>
    /\ fs' = [fs EXCEPT ![dir] = Append(@, <<>>)]
    /\ born' = [born EXCEPT ![dir] = Append(@, Len(@) + 1)]
    /\ UNCHANGED <<src_up, src_readable, now, ticks, appends, fixed_vars, monitor_vars, limit_vars, task, resp, client>>

\* a log directory disappears (unmounted, removed) or comes back
SourceFlip(dir) ==
    /\ src_up' = [src_up EXCEPT ![dir] = ~@]
    /\ UNCHANGED <<fs, born, src_readable, now, ticks, appends, fixed_vars, monitor_vars, limit_vars, task, resp, client>>

\* the files of a log directory lose or regain their read permission
SourceChmod(dir) ==
    /\ src_readable' = [src_readable EXCEPT ![dir] = ~@]
    /\ UNCHANGED <<fs, born, src_up, now, ticks, appends, fixed_vars, monitor_vars, limit_vars, task, resp, client>>

Tick(d) ==
    /\ ticks < MaxTicks
    /\ now' = now + d
    /\ ticks' = ticks + 1
    /\ UNCHANGED <<fs, born, src_up, src_readable, appends, fixed_vars, monitor_vars, limit_vars, task, resp, client>>

-----------------------------------------------------------------------------
(* Monitor.update_stats: one cycle of the loop, lines 95-131 *)

\* lines 99-101: glob of one directory, latest getctime first, the first num_file of them
LatestFiles(dir, num_file) ==
    IF ~src_up[dir] THEN <<>>
    ELSE LET n == Len(fs[dir])
             newest_first == [i \in 1..n |-> <<dir, n + 1 - i>>]
         IN  Slice(newest_first, num_file)

\* lines 97-101
SelectedFiles(num_file) ==
    Concat([i \in 1..Len(log_dir_list) |-> LatestFiles(log_dir_list[i], num_file)])

\* what open(json_file) iterates over, for each file in turn
FileLines(json_files) ==
    Concat([i \in 1..Len(json_files) |-> fs[json_files[i][1]][json_files[i][2]]])

\* line 105: open(json_file, "r") raises on a file that cannot be read
OpenRaises(json_files) ==
    \E i \in 1..Len(json_files) : ~src_readable[json_files[i][1]]

update_stats_scan ==
    /\ task.pc = "scan"
    /\ task' = [task EXCEPT !.pc = "parse", !.json_files = SelectedFiles(NUM_FILE)]
    /\ UNCHANGED <<env_vars, fixed_vars, monitor_vars, limit_vars, resp, client>>

\* lines 102-118; an exception ends the coroutine
update_stats_parse ==
    /\ task.pc = "parse"
    /\ LET lines == FileLines(task.json_files)
           idx   == IndexLines(EmptyIndex, lines)
       IN  task' = IF OpenRaises(task.json_files) \/ ParseRaises(lines)
                   THEN [task EXCEPT !.pc = "dead", !.json_files = <<>>, !.events = <<>>]
                   ELSE [task EXCEPT !.pc = "publish_model", !.json_files = <<>>,
                                     !.events = SelectSeq(lines, LAMBDA line : line.type = "chat"),
                                     !.model_call = idx.model_call,
                                     !.user_call = idx.user_call]
    /\ UNCHANGED <<env_vars, fixed_vars, monitor_vars, limit_vars, resp, client>>

\* a slip: the cycle leaves top_k at the default of the two methods
CycleTopK_default == <<DEFAULT_TOP_K>>

\* lines 121-129: the cycle computes its four views with top_k=None
CycleTopK == NoK

\* lines 120-124; line 121 raises on a tstamp that is not a number
update_stats_publish_model ==
    /\ task.pc = "publish_model"
    /\ model_call' = task.model_call
    /\ IF ModelStatsRaises(task.model_call, None)
       THEN /\ task' = [task EXCEPT !.pc = "dead", !.written = {"model_call"}, !.events = <<>>,
                                    !.model_call = EmptyDict, !.user_call = EmptyDict]
            /\ UNCHANGED <<model_call_stats_hour, model_call_stats_day, attrs>>
       ELSE /\ model_call_stats_hour' =
                   ModelCallStats(task.model_call, None, DEFAULT_MOST_RECENT_MIN, CycleTopK, now)
            /\ model_call_stats_day' =
                   ModelCallStats(task.model_call, None, DAY_MIN, CycleTopK, now)
            /\ attrs' = attrs \cup {"model_call_stats_hour", "model_call_stats_day"}
            /\ task' = [task EXCEPT !.pc = "publish_user", !.model_call = EmptyDict,
                            !.written = {"model_call", "model_call_stats_hour",
                                         "model_call_stats_day"}]
    /\ UNCHANGED <<env_vars, fixed_vars, user_call, user_call_stats_hour,
                   user_call_stats_day, limit_vars, resp, client>>

\* lines 126-131, up to the await
update_stats_publish_user ==
    /\ task.pc = "publish_user"
    /\ user_call' = task.user_call
    /\ IF UserStatsRaises(task.user_call)
       THEN /\ task' = [task EXCEPT !.pc = "dead", !.user_call = EmptyDict, !.events = <<>>,
                            !.written = @ \cup {"user_call"}]
            /\ UNCHANGED <<user_call_stats_hour, user_call_stats_day, attrs>>
       ELSE /\ user_call_stats_hour' =
                   UserCallStats(task.user_call, None, DEFAULT_MOST_RECENT_MIN, CycleTopK, now)
            /\ user_call_stats_day' =
                   UserCallStats(task.user_call, None, DAY_MIN, CycleTopK, now)
            /\ attrs' = attrs \cup {"user_call_stats_hour", "user_call_stats_day"}
            /\ task' = [task EXCEPT !.pc = "sleep", !.user_call = EmptyDict,
                            !.written = {}, !.wake_at = now + REFRESH_INTERVAL_SEC]
    /\ UNCHANGED <<env_vars, fixed_vars, model_call, model_call_stats_hour,
                   model_call_stats_day, limit_vars, resp, client>>

\* a slip: the loop starts over without waiting for the sleep to end
update_stats_wake_early ==
    /\ task.pc = "sleep"
    /\ task' = [task EXCEPT !.pc = "scan", !.wake_at = 0]
    /\ UNCHANGED <<env_vars, fixed_vars, monitor_vars, limit_vars, resp, client>>

\* line 131: asyncio.sleep returns, the loop starts over
update_stats_wake ==
    /\ task.pc = "sleep"
    /\ now >= task.wake_at
    /\ task' = [task EXCEPT !.pc = "scan", !.wake_at = 0]
    /\ UNCHANGED <<env_vars, fixed_vars, monitor_vars, limit_vars, resp, client>>

update_stats ==
    \/ update_stats_scan
    \/ update_stats_parse
    \/ update_stats_publish_model
    \/ update_stats_publish_user
    \/ update_stats_wake

-----------------------------------------------------------------------------
(* The FastAPI handlers, lines 234-286.  A response is                        *)
(*   [op, args, fault, body, reads, saw]: fault is an unhandled exception     *)
(*   (HTTP 500), body the returned JSON object as a dict, reads the snapshot  *)
(*   attributes the handler read and saw those of them that the cycle in      *)
(*   progress had already assigned.  The response stays in flight until the   *)
(*   caller has it; nothing else moves meanwhile, so a response in flight is  *)
(*   next to the state that produced it.                                      *)

\* a slip: update_stats runs in a thread of its own, a handler runs at any time
LoopIsFree_threaded == TRUE

\* the event loop runs a handler only while update_stats is suspended at its
\* await (line 131) or has ended: the coroutine has no other await
LoopIsFree == task.pc \in {"sleep", "dead"}

Response(op, args, fault, body, reads) ==
    [op |-> op, args |-> args, fault |-> fault,
     body |-> IF fault THEN EmptyDict ELSE body,
     reads |-> reads, saw |-> reads \cap task.written]

NoResponse == [op |-> "none", args |-> <<>>, fault |-> FALSE, body |-> EmptyDict,
               reads |-> {}, saw |-> {}]

\* lines 234-236
ep_get_model_call_limit(model) ==
    /\ LoopIsFree
    /\ resp' = Response("get_model_call_limit", <<model>>, FALSE,
                        <<<<"model_call_limit", <<model, get_model_call_limit(model)>>>>>>, {})
    /\ UNCHANGED <<env_vars, fixed_vars, monitor_vars, limit_vars, task, client>>

\* lines 239-243
ep_update_model_call_limit(model, limit) ==
    /\ LoopIsFree
    /\ model_call_limit_global' = update_model_call_limit_table(model, limit)
    /\ resp' = Response("update_model_call_limit", <<model, limit>>, FALSE,
                        <<<<"success", update_model_call_limit_ok(model)>>>>, {})
    /\ UNCHANGED <<env_vars, fixed_vars, monitor_vars, model_call_day_limit_per_user,
                   task, client>>

\* a slip: the user-level check comes first
is_limit_reached_body_user_first(model, user_id) ==
    IF is_user_limit_reached(model, user_id)
    THEN <<<<"is_limit_reached", TRUE>>,
           <<"reason", <<"USER_DAILY_LIMIT", model,
                         Get(model_call_day_limit_per_user, model)>>>>>>
    ELSE IF is_model_limit_reached(model)
    THEN <<<<"is_limit_reached", TRUE>>,
           <<"reason", <<"MODEL_HOURLY_LIMIT", model, get_model_call_limit(model)>>>>>>
    ELSE <<<<"is_limit_reached", FALSE>>>>

\* a slip: the user-level check is missing
is_limit_reached_body_model_only(model, user_id) ==
    IF is_model_limit_reached(model)
    THEN <<<<"is_limit_reached", TRUE>>,
           <<"reason", <<"MODEL_HOURLY_LIMIT", model, get_model_call_limit(model)>>>>>>
    ELSE <<<<"is_limit_reached", FALSE>>>>

\* lines 246-258: the returned object
is_limit_reached_body(model, user_id) ==
    IF is_model_limit_reached(model)
    THEN <<<<"is_limit_reached", TRUE>>,
           <<"reason", <<"MODEL_HOURLY_LIMIT", model, get_model_call_limit(model)>>>>>>
    ELSE IF is_user_limit_reached(model, user_id)
    THEN <<<<"is_limit_reached", TRUE>>,
           <<"reason", <<"USER_DAILY_LIMIT", model,
                         Get(model_call_day_limit_per_user, model)>>>>>>
    ELSE <<<<"is_limit_reached", FALSE>>>>

\* lines 246-258: an AttributeError of either check is not caught
is_limit_reached_raises(model, user_id) ==
    \/ is_model_limit_reached_raises(model)
    \/ /\ ~is_model_limit_reached(model)
       /\ is_user_limit_reached_raises(model, user_id)

\* the cached views the two checks read on their way
is_limit_reached_reads(model, user_id) ==
    (IF Has(model_call_limit_global, model) THEN {"model_call_stats_hour"} ELSE {})
    \cup (IF /\ ~is_model_limit_reached_raises(model)
             /\ ~is_model_limit_reached(model)
             /\ Has(model_call_day_limit_per_user, model)
          THEN {"user_call_stats_day"} ELSE {})

ep_is_limit_reached(model, user_id) ==
    /\ LoopIsFree
    /\ resp' = Response("is_limit_reached", <<model, user_id>>,
                        is_limit_reached_raises(model, user_id),
                        is_limit_reached_body(model, user_id),
                        is_limit_reached_reads(model, user_id))
    /\ UNCHANGED <<env_vars, fixed_vars, monitor_vars, limit_vars, task, client>>

\* lines 261-263
ep_get_num_users ==
    /\ LoopIsFree
    /\ resp' = Response("get_num_users_hr", <<>>, "user_call_stats_hour" \notin attrs,
                        <<<<"num_users", Len(user_call_stats_hour)>>>>,
                        {"user_call_stats_hour"})
    /\ UNCHANGED <<env_vars, fixed_vars, monitor_vars, limit_vars, task, client>>

\* lines 266-268
ep_get_num_users_day ==
    /\ LoopIsFree
    /\ resp' = Response("get_num_users_day", <<>>, "user_call_stats_day" \notin attrs,
                        <<<<"num_users", Len(user_call_stats_day)>>>>,
                        {"user_call_stats_day"})
    /\ UNCHANGED <<env_vars, fixed_vars, monitor_vars, limit_vars, task, client>>

\* lines 271-277
ep_get_user_call_stats(model, most_recent_min, top_k) ==
    /\ LoopIsFree
    /\ resp' = Response("get_user_call_stats", <<model, most_recent_min, top_k>>,
                        UserStatsRaises(user_call),
                        <<<<"user_call_stats",
                            get_user_call_stats(model, most_recent_min, top_k)>>>>,
                        {"user_call"})
    /\ UNCHANGED <<env_vars, fixed_vars, monitor_vars, limit_vars, task, client>>

\* lines 280-286
ep_get_model_call_stats(model, most_recent_min, top_k) ==
    /\ LoopIsFree
    /\ resp' = Response("get_model_call_stats", <<model, most_recent_min, top_k>>,
                        ModelStatsRaises(model_call, model),
                        <<<<"model_call_stats",
                            get_model_call_stats(model, most_recent_min, top_k)>>>>,
                        {"model_call"})
    /\ UNCHANGED <<env_vars, fixed_vars, monitor_vars, limit_vars, task, client>>

\* the caller receives the response; a caller whose update succeeded notes the limit it set
reply_delivered ==
    /\ resp # NoResponse
    /\ resp' = NoResponse
    /\ client' = IF /\ resp.op = "update_model_call_limit"
                    /\ ~resp.fault
                    /\ Get(resp.body, "success")
                 THEN [client EXCEPT ![resp.args[1]] =
                          [limit |-> resp.args[2], writes |-> Min2(@.writes + 1, 2)]]
                 ELSE client
    /\ UNCHANGED <<env_vars, fixed_vars, monitor_vars, limit_vars, task>>

-----------------------------------------------------------------------------
(* The state after Monitor(log_dir_list=...) and app_startup *)

InitialTask == [pc |-> "scan", json_files |-> <<>>, model_call |-> EmptyDict,
                user_call |-> EmptyDict, wake_at |-> 0, written |-> {},
                events |-> <<>>]

\* lines 37-92 and 229-231
InitMonitor(dirs) ==
    /\ log_dir_list = dirs
    /\ model_call = EmptyDict
    /\ user_call = EmptyDict
    /\ model_call_stats_hour = EmptyDict
    /\ model_call_stats_day = EmptyDict
    /\ user_call_stats_hour = EmptyDict
    /\ user_call_stats_day = EmptyDict
    /\ attrs = {}
    /\ model_call_limit_global = InitialGlobalLimits
    /\ model_call_day_limit_per_user = InitialDayLimits
    /\ task = InitialTask
    /\ resp = NoResponse
    /\ client = [m \in Models |->
                    [limit |-> IF Has(InitialGlobalLimits, m)
                               THEN Get(InitialGlobalLimits, m) ELSE UNLIMITED,
                     writes |-> 0]]

InitEnvironment ==
    /\ fs = [d \in Dirs |-> <<<<>>>>]
    /\ born = [d \in Dirs |-> <<1>>]
    /\ src_up = [d \in Dirs |-> TRUE]
    /\ src_readable = [d \in Dirs |-> TRUE]
    /\ now = T0
    /\ ticks = 0
    /\ appends = 0

Idle == resp = NoResponse

\* a cycle is short next to the pace of the producers and of the clock: they
\* move between two cycles, and not within one
BetweenCycles == task.pc \in {"scan", "sleep", "dead"}

\* the files are read by update_stats alone: once it has ended, what the
\* producers write is seen by nothing
FilesAreRead == task.pc # "dead"

-----------------------------------------------------------------------------
(* Spec: the quota service.  One log directory whose producers write         *)
(* well-formed chat lines, singly or in a burst; callers read and set limits *)
(* and ask whether a limit is reached.  u1 calls M1 and u2 calls M3.          *)

Burst(line, n) == [i \in 1..n |-> line]

\* one line short of the daily ceiling: one more line reaches it
BurstLen == DAY_LIMIT_M1 - 1

QuotaChunks ==
    {<<ChatLine(M1, "u1", now)>>, <<ChatLine(M3, "u2", now)>>,
     Burst(ChatLine(M1, "u1", now), BurstLen)}

NewLimits == {0, 1, 5}

QuotaDeltas == {3600}

Init == InitEnvironment /\ InitMonitor(<<LOG_DIR_LIST[1]>>)

QuotaEnvironment ==
    \/ FilesAreRead /\ \E chunk \in QuotaChunks : LogAppend(LOG_DIR_LIST[1], chunk)
    \/ \E d \in QuotaDeltas : Tick(d)

QuotaHandlers ==
    \/ \E model \in Models : ep_get_model_call_limit(model)
    \/ \E model \in {M1, M3}, limit \in NewLimits : ep_update_model_call_limit(model, limit)
    \/ \E model \in Models, user_id \in Users : ep_is_limit_reached(model, user_id)

Next ==
    \/ Idle /\ BetweenCycles /\ QuotaEnvironment
    \/ Idle /\ update_stats
    \/ Idle /\ QuotaHandlers
    \/ reply_delivered

Spec == Init /\ [][Next]_vars

-----------------------------------------------------------------------------
(* SpecIngest: the aggregator.  Two log directories whose producers write    *)
(* any kind of line; the first rotates its files, the second may disappear;  *)
(* callers ask for statistics and limits.                                     *)

IngestChunks ==
    {<<ChatLine(M1, "u1", now)>>, <<OtherLine(M1, "u1", now)>>,
     <<BadJsonLine>>, <<NoFieldLine>>, <<ChatLine(M1, "u2", NonNumeric)>>}

IngestDeltas == {REFRESH_INTERVAL_SEC}

StatModels == {None, M1}

StatWindows == {DEFAULT_MOST_RECENT_MIN}

StatTopKs == {NoK}

InitIngest == InitEnvironment /\ InitMonitor(LOG_DIR_LIST)

IngestEnvironment ==
    \/ FilesAreRead /\ \E dir \in Dirs, chunk \in IngestChunks : LogAppend(dir, chunk)
    \/ FilesAreRead /\ LogRotate(LOG_DIR_LIST[1])
    \/ FilesAreRead /\ SourceFlip(LOG_DIR_LIST[2])
    \/ \E d \in IngestDeltas : Tick(d)

IngestHandlers ==
    \/ \E user_id \in Users : ep_is_limit_reached(M1, user_id)
    \/ ep_get_num_users
    \/ ep_get_num_users_day
    \/ \E model \in StatModels, w \in StatWindows, k \in StatTopKs :
           ep_get_user_call_stats(model, w, k)
    \/ \E model \in StatModels, w \in StatWindows, k \in StatTopKs :
           ep_get_model_call_stats(model, w, k)

NextIngest ==
    \/ Idle /\ BetweenCycles /\ IngestEnvironment
    \/ Idle /\ update_stats
    \/ Idle /\ IngestHandlers
    \/ reply_delivered

SpecIngest == InitIngest /\ [][NextIngest]_vars

-----------------------------------------------------------------------------
(* SpecSources: the aggregator and its sources.  Two log directories whose   *)
(* producers write well-formed chat lines; the second directory may be       *)
(* missing, and its files may be unreadable for the monitor.                  *)

SourceChunks == {<<ChatLine(M1, "u1", now)>>, <<ChatLine(M2, "u2", now)>>}

InitSources == InitEnvironment /\ InitMonitor(LOG_DIR_LIST)

SourcesEnvironment ==
    \/ FilesAreRead /\ \E dir \in Dirs, chunk \in SourceChunks : LogAppend(dir, chunk)
    \/ FilesAreRead /\ SourceFlip(LOG_DIR_LIST[2])
    \/ FilesAreRead /\ SourceChmod(LOG_DIR_LIST[2])
    \/ Tick(REFRESH_INTERVAL_SEC)

SourcesHandlers ==
    \/ ep_get_model_call_stats(None, DEFAULT_MOST_RECENT_MIN, NoK)
    \/ ep_get_num_users

NextSources ==
    \/ Idle /\ BetweenCycles /\ SourcesEnvironment
    \/ Idle /\ update_stats
    \/ Idle /\ SourcesHandlers
    \/ reply_delivered

SpecSources == InitSources /\ [][NextSources]_vars

-----------------------------------------------------------------------------
(* SpecStats: the statistics queries.  One log directory whose newest file   *)
(* is there when the server starts and is written no more; the clock moves   *)
(* on, and callers ask for statistics with every kind of argument.            *)

\* events 30 seconds, 90 minutes and 25 hours old, and one exactly an hour old
WindowFile ==
    <<ChatLine(M1, "u1", T0 - 30), ChatLine(M1, "u1", T0 - 90 * 60),
      ChatLine(M1, "u2", T0 - 25 * 3600), ChatLine(M2, "u2", T0 - 60 * 60)>>

\* u1 has 3 calls, u2 none in any window, u3 has 7
RankFile ==
    Burst(ChatLine(M1, "u1", T0 - 30), 3) \o <<ChatLine(M3, "u2", T0 - 25 * 3600)>>
        \o Burst(ChatLine(M2, "u3", T0 - 30), 7)

\* M1 and M2 have one call each, M3 has two; u2 and u3 have one each, u1 two
TieFile ==
    <<ChatLine(M1, "u1", T0 - 30), ChatLine(M2, "u2", T0 - 30),
      ChatLine(M3, "u3", T0 - 30), ChatLine(M3, "u1", T0 - 30)>>

\* one chat line and one line of another type, 10 seconds old
EndToEndFile == <<ChatLine(M1, "u1", T0 - 10), OtherLine(M2, "u2", T0 - 10)>>

\* one user more than the default top_k, one call each
CrowdFile == [i \in 1..(DEFAULT_TOP_K + 1) |-> ChatLine(M1, ToString(i), T0 - 30)]

StatFiles == {WindowFile, RankFile, TieFile, EndToEndFile, CrowdFile}

QueryModels == {None, M1, M2}

QueryWindows == {DEFAULT_MOST_RECENT_MIN, DAY_MIN}

QueryTopKs == {NoK, <<0>>, <<1>>, <<2>>}

StatDeltas == {60 * 60}

InitStats ==
    /\ \E file \in StatFiles : fs = [d \in Dirs |-> <<file>>]
    /\ born = [d \in Dirs |-> <<1>>]
    /\ src_up = [d \in Dirs |-> TRUE]
    /\ src_readable = [d \in Dirs |-> TRUE]
    /\ now = T0
    /\ ticks = 0
    /\ appends = 0
    /\ InitMonitor(<<LOG_DIR_LIST[1]>>)

StatsHandlers ==
    \/ ep_get_num_users
    \/ ep_get_num_users_day
    \/ \E model \in QueryModels, w \in QueryWindows, k \in QueryTopKs :
           ep_get_user_call_stats(model, w, k)
    \/ \E model \in QueryModels, w \in QueryWindows, k \in QueryTopKs :
           ep_get_model_call_stats(model, w, k)

NextStats ==
    \/ Idle /\ BetweenCycles /\ \E d \in StatDeltas : Tick(d)
    \/ Idle /\ update_stats
    \/ Idle /\ StatsHandlers
    \/ reply_delivered

SpecStats == InitStats /\ [][NextStats]_vars

-----------------------------------------------------------------------------
(* SpecRebuild: the aggregator over rotating files.  One log directory whose *)
(* producers write well-formed lines and start new files, so that a file is  *)
(* selected by several cycles and then by none.                               *)

RebuildChunks ==
    {<<ChatLine(M1, "u1", now)>>, <<ChatLine(M2, "u2", now)>>, <<OtherLine(M1, "u1", now)>>}

InitRebuild == InitEnvironment /\ InitMonitor(<<LOG_DIR_LIST[1]>>)

RebuildEnvironment ==
    \/ \E chunk \in RebuildChunks : LogAppend(LOG_DIR_LIST[1], chunk)
    \/ LogRotate(LOG_DIR_LIST[1])
    \/ Tick(REFRESH_INTERVAL_SEC)

\* the windows asked for: the default hour and one refresh interval
RebuildWindows == {DEFAULT_MOST_RECENT_MIN, REFRESH_INTERVAL_SEC \div 60}

RebuildHandlers ==
    \/ \E most_recent_min \in RebuildWindows :
           ep_get_model_call_stats(None, most_recent_min, NoK)
    \/ ep_get_num_users

NextRebuild ==
    \/ Idle /\ BetweenCycles /\ RebuildEnvironment
    \/ Idle /\ update_stats
    \/ Idle /\ RebuildHandlers
    \/ reply_delivered

SpecRebuild == InitRebuild /\ [][NextRebuild]_vars

-----------------------------------------------------------------------------
(* SpecFiles: the choice of the files.  One log directory with several log   *)
(* files, written in any order; a caller lowers the hourly limit of M1 and   *)
(* asks whether it is reached.                                                *)

FilesChunks == {<<ChatLine(M1, "u1", now)>>, <<ChatLine(M2, "u2", now)>>}

LoweredLimits == {1}

InitFiles == InitEnvironment /\ InitMonitor(<<LOG_DIR_LIST[1]>>)

FilesEnvironment ==
    \/ \E chunk \in FilesChunks : LogAppend(LOG_DIR_LIST[1], chunk)
    \/ \E i \in 1..MaxFiles, chunk \in FilesChunks : LogTouch(LOG_DIR_LIST[1], i, chunk)
    \/ LogRotate(LOG_DIR_LIST[1])
    \/ Tick(REFRESH_INTERVAL_SEC)

FilesHandlers ==
    \/ \E limit \in LoweredLimits : ep_update_model_call_limit(M1, limit)
    \/ ep_is_limit_reached(M1, "u1")

NextFiles ==
    \/ Idle /\ BetweenCycles /\ FilesEnvironment
    \/ Idle /\ update_stats
    \/ Idle /\ FilesHandlers
    \/ reply_delivered

SpecFiles == InitFiles /\ [][NextFiles]_vars

-----------------------------------------------------------------------------
(* SpecQueries: every handler.  The directory and the clock of SpecStats;    *)
(* callers read and set the hourly limits, ask whether a limit is reached    *)
(* and ask for statistics with every kind of argument.                        *)

\* u1 has as many calls of M1 as the daily limit allows, all in the last hour
\* of the day window
DayQuotaFile == Burst(ChatLine(M1, "u1", T0 - 23 * 3600 - 30), DAY_LIMIT_M1)

QueryFiles == StatFiles \cup {DayQuotaFile}

InitQueries ==
    /\ \E file \in QueryFiles : fs = [d \in Dirs |-> <<file>>]
    /\ born = [d \in Dirs |-> <<1>>]
    /\ src_up = [d \in Dirs |-> TRUE]
    /\ src_readable = [d \in Dirs |-> TRUE]
    /\ now = T0
    /\ ticks = 0
    /\ appends = 0
    /\ InitMonitor(<<LOG_DIR_LIST[1]>>)

\* the limits callers set: the handler takes any int
QueryLimits == {UNLIMITED, 1}

QueriesHandlers ==
    \/ StatsHandlers
    \/ \E model \in Models : ep_get_model_call_limit(model)
    \/ \E model \in Models, limit \in QueryLimits : ep_update_model_call_limit(model, limit)
    \/ \E model \in Models, user_id \in Users : ep_is_limit_reached(model, user_id)

NextQueries ==
    \/ Idle /\ BetweenCycles /\ \E d \in StatDeltas : Tick(d)
    \/ Idle /\ update_stats
    \/ Idle /\ QueriesHandlers
    \/ reply_delivered

SpecQueries == InitQueries /\ [][NextQueries]_vars

-----------------------------------------------------------------------------
(* Claims C1-C10 *)

\* the quota policy in the words of its description, on the cached views
ModelOverLimit(m) ==
    /\ Has(model_call_limit_global, m)
    /\ Has(model_call_stats_hour, m)
    /\ Get(model_call_stats_hour, m) >= Get(model_call_limit_global, m)

UserOverLimit(m, u) ==
    /\ Has(model_call_day_limit_per_user, m)
    /\ Has(user_call_stats_day, u)
    /\ Has(Get(user_call_stats_day, u).call_dict, m)
    /\ Get(Get(user_call_stats_day, u).call_dict, m) >= Get(model_call_day_limit_per_user, m)

Answered(op) == resp.op = op /\ ~resp.fault

\* C1 (precedence): whenever the model's hourly limit and the user's daily
\* limit for that model are both reached, is_limit_reached answers true with
\* the MODEL_HOURLY_LIMIT reason, and has not consulted the user's daily view.
C1_Precedence ==
    Answered("is_limit_reached") =>
        LET m == resp.args[1]
            u == resp.args[2]
        IN  (ModelOverLimit(m) /\ UserOverLimit(m, u)) =>
                /\ Get(resp.body, "is_limit_reached") = TRUE
                /\ Get(resp.body, "reason")[1] = "MODEL_HOURLY_LIMIT"
                /\ "user_call_stats_day" \notin resp.reads

C1_Witness ==
    /\ Answered("is_limit_reached")
    /\ ModelOverLimit(resp.args[1])
    /\ UserOverLimit(resp.args[1], resp.args[2])

\* C2 (inclusive model threshold): for a model with an entry in the global
\* table that appears in the cached hourly view, is_model_limit_reached is true
\* iff the cached hourly count is >= the ceiling; for a model with no entry it
\* is false whatever its count.
C2_InclusiveModelThreshold ==
    \A m \in Models :
        /\ (Has(model_call_limit_global, m) /\ Has(model_call_stats_hour, m)) =>
               (is_model_limit_reached(m) <=>
                    Get(model_call_stats_hour, m) >= Get(model_call_limit_global, m))
        /\ ~Has(model_call_limit_global, m) => ~is_model_limit_reached(m)

C2_Witness ==
    /\ \E m \in Models :
           /\ Has(model_call_limit_global, m)
           /\ Has(model_call_stats_hour, m)
           /\ Get(model_call_stats_hour, m) = Get(model_call_limit_global, m)
    /\ \E m \in Models :
           /\ ~Has(model_call_limit_global, m)
           /\ Has(model_call_stats_hour, m)
           /\ Get(model_call_stats_hour, m) > 0

\* C3 (user threshold): is_user_limit_reached(model, user) is false when the
\* model has no per-user daily ceiling, when the user is absent from the cached
\* daily user view, or when the user has no call to the model in that view;
\* otherwise it is true iff the user's cached daily count for the model is >=
\* the model's per-user daily ceiling.
C3_UserThreshold ==
    \A m \in Models, u \in Users :
        IF \/ ~Has(model_call_day_limit_per_user, m)
           \/ ~Has(user_call_stats_day, u)
           \/ ~Has(Get(user_call_stats_day, u).call_dict, m)
        THEN ~is_user_limit_reached(m, u)
        ELSE is_user_limit_reached(m, u) <=>
                 Get(Get(user_call_stats_day, u).call_dict, m)
                     >= Get(model_call_day_limit_per_user, m)

C3_Witness ==
    \E m \in Models, u \in Users :
        /\ Has(model_call_day_limit_per_user, m)
        /\ Has(user_call_stats_day, u)
        /\ Has(Get(user_call_stats_day, u).call_dict, m)
        /\ Get(Get(user_call_stats_day, u).call_dict, m)
               = Get(model_call_day_limit_per_user, m)
        /\ is_user_limit_reached(m, u)

\* C4 (combined decision): is_limit_reached answers true iff the model-level
\* or the user-level check holds; a true answer carries exactly one reason,
\* MODEL_HOURLY_LIMIT if the model-level check fired and USER_DAILY_LIMIT
\* otherwise, and a false answer carries no reason.
C4_CombinedDecision ==
    Answered("is_limit_reached") =>
        LET m == resp.args[1]
            u == resp.args[2]
            over == ModelOverLimit(m) \/ UserOverLimit(m, u)
        IN  /\ Get(resp.body, "is_limit_reached") = over
            /\ over => /\ Has(resp.body, "reason")
                       /\ Len(resp.body) = 2
                       /\ Get(resp.body, "reason")[1] =
                              IF ModelOverLimit(m) THEN "MODEL_HOURLY_LIMIT"
                              ELSE "USER_DAILY_LIMIT"
            /\ ~over => ~Has(resp.body, "reason")

C4_Witness ==
    /\ Answered("is_limit_reached")
    /\ ~ModelOverLimit(resp.args[1])
    /\ UserOverLimit(resp.args[1], resp.args[2])
    /\ Get(resp.body, "reason")[1] = "USER_DAILY_LIMIT"

\* C5 (unknown-model update rejection): update_model_call_limit on a model
\* with no entry in the global table reports failure and leaves the table as it
\* was, so that get_model_call_limit still gives -1 for it; on a model with an
\* entry it reports success.
C5_UnknownModelUpdateRejected ==
    [][\A m \in Models, l \in NewLimits :
          (resp = NoResponse /\ resp'.op = "update_model_call_limit"
                             /\ resp'.args = <<m, l>>) =>
              IF Has(model_call_limit_global, m)
              THEN Get(resp'.body, "success") = TRUE
              ELSE /\ Get(resp'.body, "success") = FALSE
                   /\ model_call_limit_global' = model_call_limit_global
                   /\ get_model_call_limit(m)' = UNLIMITED]_vars

C5_Witness ==
    /\ Answered("update_model_call_limit")
    /\ ~Has(model_call_limit_global, resp.args[1])
    /\ Get(resp.body, "success") = FALSE

\* C6 (closed-world limit tables): whatever refresh cycles, queries and
\* updates have happened, the keys of the global hourly table and of the
\* per-user daily table are the ones configured at start.
C6_ClosedWorldTables ==
    /\ KeySet(model_call_limit_global) = KeySet(InitialGlobalLimits)
    /\ KeySet(model_call_day_limit_per_user) = KeySet(InitialDayLimits)

C6_Witness ==
    /\ Answered("update_model_call_limit")
    /\ resp.args[1] \notin KeySet(InitialGlobalLimits)
    /\ \E m \in Models : client[m].writes > 0
    /\ attrs # {}

\* C7 (limit read-back, last writer wins): get_model_call_limit of a
\* configured model gives the limit of the latest successful update of that
\* model, or the configured ceiling when there was none; of an unconfigured
\* model it gives -1.
C7_LimitReadBack ==
    Answered("get_model_call_limit") =>
        LET m == resp.args[1]
        IN  Get(resp.body, "model_call_limit") =
                <<m, IF m \in KeySet(InitialGlobalLimits) THEN client[m].limit
                     ELSE UNLIMITED>>

C7_Witness ==
    /\ Answered("get_model_call_limit")
    /\ client[resp.args[1]].writes = 2
    /\ Get(resp.body, "model_call_limit")[2] # Get(InitialGlobalLimits, resp.args[1])

\* C8 (atomic swap): no response is computed from snapshot attributes of
\* which the cycle in progress has assigned some and not yet the others: what
\* a handler read is wholly from before the cycle's assignments or wholly
\* from after them.
C8_AtomicSwap ==
    resp # NoResponse => (resp.saw = {} \/ resp.saw = resp.reads)

C8_Witness ==
    /\ resp # NoResponse
    /\ resp.reads # {}
    /\ resp.saw = resp.reads
    /\ attrs # {}

\* C9 (per-record failure isolation): when the selected files hold a
\* malformed line, the parse of the cycle skips that line only: it goes on to
\* publish, with every well-formed chat line of the selected files indexed.
C9_MalformedLineSkipped ==
    [][(task.pc = "parse" /\ task'.pc # "parse") =>
          LET idx == IndexLines(EmptyIndex,
                         SelectSeq(FileLines(task.json_files),
                                   LAMBDA line : ~LineRaises(line)))
          IN  /\ task'.pc = "publish_model"
              /\ task'.model_call = idx.model_call
              /\ task'.user_call = idx.user_call]_vars

\* C10 (refresh liveness): the background refresh task never terminates.
C10_TaskNeverTerminates == task.pc # "dead"

-----------------------------------------------------------------------------
(* Claims C11-C20 *)

\* the selected files of the sources that are there and can be read
AvailableFiles(json_files) ==
    SelectSeq(json_files, LAMBDA f : src_up[f[1]] /\ src_readable[f[1]])

\* C11 (source unavailable): a log directory that is missing or unreadable
\* during a cycle contributes no file to it, and the cycle goes on to publish
\* the index of the lines of all the other sources.
C11_SourceUnavailable ==
    [][(task.pc = "parse" /\ task'.pc # "parse") =>
          LET idx == IndexLines(EmptyIndex, FileLines(AvailableFiles(task.json_files)))
          IN  /\ task'.pc = "publish_model"
              /\ task'.model_call = idx.model_call
              /\ task'.user_call = idx.user_call]_vars

\* C12 (defined initial snapshot, no query faults): every query returns a
\* result and none ends in an unhandled exception; as long as no cycle has
\* published the cached views, the limit check answers false and the active
\* user counts are 0.
C12_NoQueryFaults ==
    resp # NoResponse =>
        /\ ~resp.fault
        /\ (attrs = {} /\ resp.op = "is_limit_reached") =>
               Get(resp.body, "is_limit_reached") = FALSE
        /\ (attrs = {} /\ resp.op \in {"get_num_users_hr", "get_num_users_day"}) =>
               Get(resp.body, "num_users") = 0

\* how old each event is at the time of the query, in seconds
Ages(reqs) == [j \in 1..Len(reqs) |-> now - reqs[j].tstamp]

\* the number of events with timestamp >= now - w * 60
NumSince(reqs, w) ==
    Cardinality({j \in 1..Len(reqs) : reqs[j].tstamp >= now - w * 60})

\* the models a query with this filter is about
Filtered(target_model) ==
    {m \in KeySet(model_call) : target_model = None \/ m = target_model}

\* C13 (window correctness): get_model_call_stats with window w and no top_k
\* maps every model of the index (that passes the filter) to the number of its
\* events with timestamp >= now - w * 60, the event at exactly now - w * 60
\* included; of events 30 seconds, 90 minutes and 25 hours old, the 60-minute
\* window counts the first only and the 1440-minute window the first two.
C13_WindowCorrectness ==
    (Answered("get_model_call_stats") /\ resp.args[3] = NoK) =>
        LET w     == resp.args[2]
            stats == Get(resp.body, "model_call_stats")
        IN  /\ KeySet(stats) = Filtered(resp.args[1])
            /\ Len(stats) = Cardinality(KeySet(stats))
            /\ \A m \in KeySet(stats) :
                   /\ Get(stats, m) = NumSince(Get(model_call, m), w)
                   /\ Ages(Get(model_call, m)) = <<30, 90 * 60, 25 * 3600>> =>
                          Get(stats, m) = IF w = 60 THEN 1
                                          ELSE IF w = 1440 THEN 2
                                          ELSE NumSince(Get(model_call, m), w)

C13_Witness ==
    /\ Answered("get_model_call_stats")
    /\ resp.args[3] = NoK
    /\ resp.args[2] = 60
    /\ \E m \in KeySet(model_call) :
           /\ Ages(Get(model_call, m)) = <<30, 90 * 60, 25 * 3600>>
           /\ Get(Get(resp.body, "model_call_stats"), m) = 1
    /\ \E m \in KeySet(model_call) :
           /\ Ages(Get(model_call, m)) = <<60 * 60>>
           /\ Get(Get(resp.body, "model_call_stats"), m) = 1

\* one user's number of calls in the window, of the model asked for
TotalCalls(u, target_model, w) ==
    LET reqs == Get(user_call, u)
    IN  Cardinality({j \in 1..Len(reqs) :
                        /\ reqs[j].tstamp >= now - w * 60
                        /\ target_model = None \/ reqs[j].model = target_model})

\* C14 (userStats top-K and zero exclusion): a user whose total in the window
\* (and for the model asked for) is 0 is in no result, with or without top_k;
\* every user of the result carries that total; without top_k the result has
\* every user of non-zero total, and with top_k = K >= 0 it has exactly
\* min(K, number of users of non-zero total) users, each with a total >= that
\* of every user left out.
C14_UserTopK ==
    Answered("get_user_call_stats") =>
        LET target  == resp.args[1]
            w       == resp.args[2]
            top_k   == resp.args[3]
            stats   == Get(resp.body, "user_call_stats")
            nonzero == {u \in KeySet(user_call) : TotalCalls(u, target, w) > 0}
        IN  /\ KeySet(stats) \subseteq nonzero
            /\ Len(stats) = Cardinality(KeySet(stats))
            /\ \A u \in KeySet(stats) :
                   Get(stats, u).total_calls = TotalCalls(u, target, w)
            /\ top_k = NoK => KeySet(stats) = nonzero
            /\ (top_k # NoK /\ top_k[1] >= 0) =>
                   /\ Len(stats) = Min2(top_k[1], Cardinality(nonzero))
                   /\ \A u \in KeySet(stats), v \in nonzero \ KeySet(stats) :
                          TotalCalls(u, target, w) >= TotalCalls(v, target, w)

C14_Witness ==
    /\ Answered("get_user_call_stats")
    /\ resp.args = <<None, DEFAULT_MOST_RECENT_MIN, <<1>>>>
    /\ \E a, b, c \in KeySet(user_call) :
           /\ TotalCalls(a, None, DEFAULT_MOST_RECENT_MIN) = 3
           /\ TotalCalls(b, None, DEFAULT_MOST_RECENT_MIN) = 0
           /\ TotalCalls(c, None, DEFAULT_MOST_RECENT_MIN) = 7
           /\ KeySet(Get(resp.body, "user_call_stats")) = {c}

\* where a model stands in the index: the order in which the models were first seen
Position(m) == CHOOSE i \in 1..Len(model_call) : model_call[i][1] = m

\* C15 (modelStats top-K): with top_k = K >= 0, get_model_call_stats gives
\* exactly min(K, number of models of the unranked result) models, each with its
\* unranked count, and each with a count >= that of every model left out; among
\* models of equal count the choice is fixed: the one first seen in the files is
\* kept before the other.
C15_ModelTopK ==
    (Answered("get_model_call_stats") /\ resp.args[3] # NoK /\ resp.args[3][1] >= 0) =>
        LET w        == resp.args[2]
            K        == resp.args[3][1]
            stats    == Get(resp.body, "model_call_stats")
            unranked == Filtered(resp.args[1])
            count(m) == NumSince(Get(model_call, m), w)
        IN  /\ KeySet(stats) \subseteq unranked
            /\ Len(stats) = Cardinality(KeySet(stats))
            /\ Len(stats) = Min2(K, Cardinality(unranked))
            /\ \A m \in KeySet(stats) : Get(stats, m) = count(m)
            /\ \A m \in KeySet(stats), left \in unranked \ KeySet(stats) :
                   /\ count(m) >= count(left)
                   /\ count(m) = count(left) => Position(m) < Position(left)

C15_Witness ==
    /\ Answered("get_model_call_stats")
    /\ resp.args[3] = <<2>>
    /\ LET stats == Get(resp.body, "model_call_stats")
       IN  /\ Len(stats) = 2
           /\ \E m \in KeySet(stats), left \in Filtered(resp.args[1]) \ KeySet(stats) :
                  /\ Get(stats, m) = NumSince(Get(model_call, left), resp.args[2])
                  /\ Get(stats, m) > 0
           /\ \E m \in KeySet(stats) : Position(m) = Len(model_call)

\* the lines of the files a cycle selects now
SelectedLines == FileLines(SelectedFiles(NUM_FILE))

\* the chat lines among them about one model, and by one user, in file order
ChatLinesOfModel(lines, m) ==
    SelectSeq(lines, LAMBDA line : line.type = "chat" /\ line.model = m)

ChatLinesOfUser(lines, u) ==
    SelectSeq(lines, LAMBDA line : line.type = "chat" /\ line.ip = u)

\* the two indices hold the chat lines of these lines, each once and in file
\* order, and nothing else
IndexIsExactly(mc, uc, lines) ==
    /\ KeySet(mc) = {lines[i].model : i \in {j \in 1..Len(lines) : lines[j].type = "chat"}}
    /\ KeySet(uc) = {lines[i].ip : i \in {j \in 1..Len(lines) : lines[j].type = "chat"}}
    /\ Len(mc) = Cardinality(KeySet(mc))
    /\ Len(uc) = Cardinality(KeySet(uc))
    /\ \A m \in KeySet(mc) :
           LET of_m == ChatLinesOfModel(lines, m)
           IN  Get(mc, m) = [j \in 1..Len(of_m) |->
                                [tstamp |-> of_m[j].tstamp, user_id |-> of_m[j].ip]]
    /\ \A u \in KeySet(uc) :
           LET of_u == ChatLinesOfUser(lines, u)
           IN  Get(uc, u) = [j \in 1..Len(of_u) |->
                                [tstamp |-> of_u[j].tstamp, model |-> of_u[j].model]]

\* C16 (end-to-end ingestion): a line whose type is not "chat" is in neither
\* index and in no statistic: once a cycle has published, the indices hold the
\* chat lines of the selected files only; over a file with one chat line (M1 by
\* u1, 10 seconds old) and one line of another type, get_model_call_stats with
\* the 60-minute window answers {M1: 1} and get_num_users_hr answers 1.
C16_EndToEnd ==
    task.pc = "sleep" =>
        /\ IndexIsExactly(model_call, user_call, SelectedLines)
        /\ (SelectedLines = EndToEndFile /\ now = T0) =>
               /\ (Answered("get_model_call_stats")
                      /\ resp.args = <<None, DEFAULT_MOST_RECENT_MIN, NoK>>) =>
                      Get(resp.body, "model_call_stats") = <<<<M1, 1>>>>
               /\ Answered("get_num_users_hr") => Get(resp.body, "num_users") = 1

C16_Witness ==
    /\ task.pc = "sleep"
    /\ SelectedLines = EndToEndFile
    /\ now = T0
    /\ Answered("get_model_call_stats")
    /\ resp.args = <<None, DEFAULT_MOST_RECENT_MIN, NoK>>
    /\ Get(resp.body, "model_call_stats") = <<<<M1, 1>>>>
    /\ Len(user_call_stats_hour) = 1

\* the users with at least one event in the window
ActiveUsers(w) == {u \in KeySet(user_call) : TotalCalls(u, None, w) > 0}

\* no time has passed since the cycle that published the cached views
ViewsAreFresh == task.pc = "sleep" /\ task.wake_at = now + REFRESH_INTERVAL_SEC

\* C17 (active users): get_num_users(w) is the number of entries of the user
\* statistics of the window computed without top_k, that is the number of
\* distinct users with at least one event in the window; the two active-user
\* queries, answered from the views the cycle has cached, give that number for
\* the hour and for the day, also when it is above the default top_k of 20.
C17_NumActiveUsers ==
    /\ \A w \in QueryWindows :
           /\ get_num_users(w) = Len(UserCallStats(user_call, None, w, NoK, now))
           /\ get_num_users(w) = Cardinality(ActiveUsers(w))
    /\ (ViewsAreFresh /\ Answered("get_num_users_hr")) =>
           Get(resp.body, "num_users") = Cardinality(ActiveUsers(DEFAULT_MOST_RECENT_MIN))
    /\ (ViewsAreFresh /\ Answered("get_num_users_day")) =>
           Get(resp.body, "num_users") = Cardinality(ActiveUsers(DAY_MIN))

C17_Witness ==
    /\ ViewsAreFresh
    /\ Answered("get_num_users_hr")
    /\ Get(resp.body, "num_users") > DEFAULT_TOP_K
    /\ get_num_users(DEFAULT_MOST_RECENT_MIN) > DEFAULT_TOP_K

\* C18 (same generation): whenever a query can run, the cached hour and day
\* views are the ones computed from the published indices: no cycle has left
\* some of the six attributes assigned and the others not, and the cached model
\* views have an entry for exactly the models of model_call, the cached user
\* views for users of user_call only.
C18_SameGeneration ==
    LoopIsFree =>
        /\ task.written = {}
        /\ KeySet(model_call_stats_hour) = KeySet(model_call)
        /\ KeySet(model_call_stats_day) = KeySet(model_call)
        /\ KeySet(user_call_stats_hour) \subseteq KeySet(user_call)
        /\ KeySet(user_call_stats_day) \subseteq KeySet(user_call)

\* C19 (configured model without events): for a model with an entry in the
\* global table and no entry in the cached hourly view, is_model_limit_reached
\* is true iff 0 >= its ceiling, as for a model with a count of 0: with a
\* ceiling of 0 the model is over its limit.
C19_ConfiguredModelWithoutEvents ==
    \A m \in Models :
        (/\ "model_call_stats_hour" \in attrs
         /\ Has(model_call_limit_global, m)
         /\ ~Has(model_call_stats_hour, m)) =>
            (is_model_limit_reached(m) <=> 0 >= Get(model_call_limit_global, m))

\* C20 (wholesale rebuild): when a cycle completes, the published indices
\* hold the chat lines of the files selected in that cycle, each once and in
\* file order, and nothing else: no event of an earlier cycle whose file is no
\* longer selected, and no event twice for a file selected again.
C20_WholesaleRebuild ==
    [][(task.pc = "publish_user" /\ task'.pc = "sleep") =>
          IndexIsExactly(model_call', user_call', SelectedLines)]_vars

C20_Witness ==
    /\ ViewsAreFresh
    /\ now > T0
    /\ Len(fs[LOG_DIR_LIST[1]]) > NUM_FILE
    /\ \E i \in 1..Len(fs[LOG_DIR_LIST[1]][1]) : fs[LOG_DIR_LIST[1]][1][i].type = "chat"
    /\ model_call # EmptyDict
    /\ IndexIsExactly(model_call, user_call, SelectedLines)

-----------------------------------------------------------------------------
(* Claims C21-C30 *)

\* the files of a directory that were created last, n of them at most
LatestCreated(dir, n) ==
    IF ~src_up[dir] THEN {}
    ELSE {i \in 1..Len(fs[dir]) : born[dir][i] > Len(fs[dir]) - n}

\* C21 (file selection): the files a cycle reads are, for each configured
\* directory, exactly the NUM_FILE files created last (all of them when there
\* are fewer), so at most NUM_FILE per directory and NUM_FILE times the number
\* of directories in all.
C21_FileSelection ==
    task.pc = "parse" =>
        /\ Len(task.json_files) <= NUM_FILE * Len(log_dir_list)
        /\ \A k \in 1..Len(log_dir_list) :
               LET dir == log_dir_list[k]
               IN  {task.json_files[j][2] :
                        j \in {x \in 1..Len(task.json_files) : task.json_files[x][1] = dir}}
                       = LatestCreated(dir, NUM_FILE)

\* the events of the last completed cycle about one model, inside the window
\* of w minutes that ends now
CycleEventsInWindow(m, w) ==
    {j \in 1..Len(task.events) :
        /\ task.events[j].model = m
        /\ task.events[j].tstamp >= now - w * 60}

\* the time at which the sleeping cycle published
SwapTime == task.wake_at - REFRESH_INTERVAL_SEC

\* C22 (visibility after swap): a query answered after a cycle has published
\* and before the next one publishes is answered from that cycle's snapshot:
\* get_model_call_stats names exactly the models of the chat events that cycle
\* read, and counts for each every one of them that lies inside the window
\* asked for at the time of the query, whatever was written to the files
\* since; get_num_users_hr gives the number of users with an event of that
\* cycle inside the hour that ended when it published.
C22_VisibilityAfterSwap ==
    task.pc = "sleep" =>
        /\ (Answered("get_model_call_stats") /\ resp.args[3] = NoK) =>
               LET stats == Get(resp.body, "model_call_stats")
               IN  /\ KeySet(stats) = {task.events[j].model : j \in 1..Len(task.events)}
                   /\ \A m \in KeySet(stats) :
                          Get(stats, m) = Cardinality(CycleEventsInWindow(m, resp.args[2]))
        /\ Answered("get_num_users_hr") =>
               Get(resp.body, "num_users") =
                   Cardinality({task.events[j].ip :
                                   j \in {x \in 1..Len(task.events) :
                                             task.events[x].tstamp >=
                                                 SwapTime - DEFAULT_MOST_RECENT_MIN * 60}})

\* a second cycle has published, the file has grown since, and a query for the
\* last refresh interval counts that cycle's recent event and not its old one
C22_Witness ==
    /\ task.pc = "sleep"
    /\ SwapTime > T0
    /\ Answered("get_model_call_stats")
    /\ resp.args = <<None, REFRESH_INTERVAL_SEC \div 60, NoK>>
    /\ \E m \in KeySet(Get(resp.body, "model_call_stats")) :
           Get(Get(resp.body, "model_call_stats"), m) > 0
    /\ \E j \in 1..Len(task.events) :
           task.events[j].tstamp < now - REFRESH_INTERVAL_SEC
    /\ SelectSeq(SelectedLines, LAMBDA line : line.type = "chat") # task.events

\* the operations that only read
ReadOps == {"get_model_call_limit", "is_limit_reached", "get_num_users_hr",
            "get_num_users_day", "get_user_call_stats", "get_model_call_stats"}

\* C23 (read operations are pure): a handler of get_model_call_limit,
\* is_limit_reached, get_num_users_hr, get_num_users_day, get_user_call_stats
\* or get_model_call_stats, with any window, model filter and top_k, leaves the
\* two indices, the four cached views and both limit tables as they were; an
\* update_model_call_limit that succeeds changes the global table's entry of
\* its model to its limit and nothing else, and one that fails changes nothing.
C23_ReadsArePure ==
    [][(resp = NoResponse /\ resp' # NoResponse) =>
          /\ UNCHANGED monitor_vars
          /\ UNCHANGED model_call_day_limit_per_user
          /\ resp'.op \in ReadOps => UNCHANGED model_call_limit_global
          /\ resp'.op \notin ReadOps =>
                 /\ resp'.op = "update_model_call_limit"
                 /\ IF Get(resp'.body, "success")
                    THEN /\ Len(model_call_limit_global') = Len(model_call_limit_global)
                         /\ \A i \in 1..Len(model_call_limit_global) :
                                model_call_limit_global'[i] =
                                    IF model_call_limit_global[i][1] = resp'.args[1]
                                    THEN <<resp'.args[1], resp'.args[2]>>
                                    ELSE model_call_limit_global[i]
                    ELSE UNCHANGED model_call_limit_global]_vars

\* the limit of M1 alone has been set, over published indices and views
C23_Witness ==
    /\ Answered("update_model_call_limit")
    /\ Get(resp.body, "success")
    /\ resp.args = <<M1, 1>>
    /\ model_call_limit_global = <<<<M1, 1>>, <<M2, GLOBAL_LIMIT_M2>>>>
    /\ model_call_day_limit_per_user = InitialDayLimits
    /\ task.pc = "sleep"
    /\ model_call # EmptyDict
    /\ model_call_stats_hour # EmptyDict

\* one user's number of calls of one model in the window
CallsOf(u, m, w) ==
    LET reqs == Get(user_call, u)
    IN  Cardinality({j \in 1..Len(reqs) :
                        reqs[j].tstamp >= now - w * 60 /\ reqs[j].model = m})

\* C24 (shape of a get_user_call_stats entry): for every user of the result,
\* total_calls is the sum of the counts of call_dict; call_dict has one key
\* for each model (of those asked for) the user called in the window, with the
\* number of those calls; with a target_model, call_dict has that single key,
\* and a user without a call of target_model in the window is not in the result.
C24_UserEntryShape ==
    Answered("get_user_call_stats") =>
        LET target == resp.args[1]
            w      == resp.args[2]
            stats  == Get(resp.body, "user_call_stats")
        IN  /\ \A u \in KeySet(stats) :
                   LET entry == Get(stats, u)
                       cd    == entry.call_dict
                   IN  /\ entry.total_calls = SumSeq([i \in 1..Len(cd) |-> cd[i][2]])
                       /\ Len(cd) = Cardinality(KeySet(cd))
                       /\ KeySet(cd) = {m \in Models : /\ target = None \/ m = target
                                                       /\ CallsOf(u, m, w) > 0}
                       /\ \A m \in KeySet(cd) : Get(cd, m) = CallsOf(u, m, w)
                       /\ target # None => KeySet(cd) = {target}
            /\ target # None =>
                   \A u \in KeySet(user_call) :
                       CallsOf(u, target, w) = 0 => u \notin KeySet(stats)

\* u1 called M1 and M3 inside the hour and u2 called M2 only: the statistics of
\* M1 have u1 alone, with the single key M1
C24_Witness ==
    /\ Answered("get_user_call_stats")
    /\ resp.args = <<M1, DEFAULT_MOST_RECENT_MIN, NoK>>
    /\ CallsOf("u1", M3, DEFAULT_MOST_RECENT_MIN) = 1
    /\ CallsOf("u2", M2, DEFAULT_MOST_RECENT_MIN) = 1
    /\ Get(resp.body, "user_call_stats") =
           <<<<"u1", [call_dict |-> <<<<M1, 1>>>>, total_calls |-> 1]>>>>

\* C25 (single writer): the one update_stats task goes through its steps in
\* the order scan, parse and index, publish (the model side, then the user
\* side), sleep, or ends on an exception; the scan of the next cycle starts
\* from the sleep of the previous one only, and not before REFRESH_INTERVAL_SEC
\* seconds have passed since it began; the indices and the views are written
\* by the publishing steps of that task and by nothing else.
C25_SingleWriter ==
    [][/\ task'.pc # task.pc =>
              \/ task.pc = "scan" /\ task'.pc = "parse"
              \/ task.pc = "parse" /\ task'.pc \in {"publish_model", "dead"}
              \/ task.pc = "publish_model" /\ task'.pc \in {"publish_user", "dead"}
              \/ /\ task.pc = "publish_user"
                 /\ task'.pc \in {"sleep", "dead"}
                 /\ task'.pc = "sleep" => task'.wake_at = now + REFRESH_INTERVAL_SEC
              \/ task.pc = "sleep" /\ task'.pc = "scan" /\ now >= task.wake_at
       /\ <<model_call, model_call_stats_hour, model_call_stats_day>>' #
              <<model_call, model_call_stats_hour, model_call_stats_day>> =>
                  task.pc = "publish_model"
       /\ <<user_call, user_call_stats_hour, user_call_stats_day>>' #
              <<user_call, user_call_stats_hour, user_call_stats_day>> =>
                  task.pc = "publish_user"]_vars

\* the second cycle is at its parsing step, over the indices of the first
C25_Witness ==
    /\ task.pc = "parse"
    /\ now >= T0 + REFRESH_INTERVAL_SEC
    /\ model_call # EmptyDict
    /\ user_call_stats_day # EmptyDict
    /\ task.json_files # <<>>

\* C26 (quota decisions come from the cache): while the task sleeps and no
\* limit is set, is_limit_reached gives the same answer for every model and
\* user whatever the time of the query, also when the clock has taken events
\* out of the hour or the day; get_model_call_stats and get_user_call_stats
\* count, on every call, the events inside the window that ends at the time
\* of the query.
C26_QuotaFromCache ==
    [][/\ (/\ task.pc = "sleep"
           /\ task'.pc = "sleep"
           /\ model_call_limit_global' = model_call_limit_global) =>
              \A m \in Models, u \in Users \cup KeySet(user_call) :
                  /\ is_limit_reached_body(m, u)' = is_limit_reached_body(m, u)
                  /\ is_limit_reached_raises(m, u)' = is_limit_reached_raises(m, u)
       /\ (Answered("get_model_call_stats") /\ resp.args[3] = NoK) =>
              \A m \in Filtered(resp.args[1]) :
                  Get(Get(resp.body, "model_call_stats"), m)
                      = NumSince(Get(model_call, m), resp.args[2])
       /\ (Answered("get_user_call_stats") /\ resp.args[3] = NoK) =>
              \A u \in KeySet(user_call) :
                  IF TotalCalls(u, resp.args[1], resp.args[2]) = 0
                  THEN ~Has(Get(resp.body, "user_call_stats"), u)
                  ELSE Get(Get(resp.body, "user_call_stats"), u).total_calls
                           = TotalCalls(u, resp.args[1], resp.args[2])]_vars

\* an hour after the cycle, M1 is still reported at its hourly limit of 1
\* while none of its events is inside the hour any more
C26_Witness ==
    /\ task.pc = "sleep"
    /\ now >= SwapTime + 60 * 60
    /\ Answered("is_limit_reached")
    /\ resp.args[1] = M1
    /\ resp.body = <<<<"is_limit_reached", TRUE>>,
                     <<"reason", <<"MODEL_HOURLY_LIMIT", M1, 1>>>>>>
    /\ NumSince(Get(model_call, M1), DEFAULT_MOST_RECENT_MIN) = 0

\* C27 (the sentinel is unambiguous): whatever limits have been set,
\* get_model_call_limit gives UNLIMITED (-1) for a model exactly when the
\* model has no entry in the global table, and a model for which it gives
\* UNLIMITED is not reported at its limit by is_model_limit_reached.
C27_SentinelUnambiguous ==
    \A m \in Models :
        /\ get_model_call_limit(m) = UNLIMITED <=> ~Has(model_call_limit_global, m)
        /\ (get_model_call_limit(m) = UNLIMITED /\ ~is_model_limit_reached_raises(m)) =>
               ~is_model_limit_reached(m)

\* C28 (the limit stays fired): when a cycle publishes its model views, a
\* model that was at its hourly limit before, and whose events counted by the
\* previous cycle are still, in a number that reaches the limit now in force,
\* less than an hour old, is at its limit afterwards too: new log files at the
\* source do not clear the limit.
C28_LimitStaysFired ==
    [][(task.pc = "publish_model" /\ task'.pc = "publish_user") =>
          \A m \in KeySet(model_call_limit_global) :
              (/\ is_model_limit_reached(m)
               /\ Has(model_call, m)
               /\ NumSince(Get(model_call, m), DEFAULT_MOST_RECENT_MIN)
                      >= Get(model_call_limit_global, m)) =>
                  is_model_limit_reached(m)']_vars

\* the events of the two indices, as records (tstamp, model, actor)
EventsOfModelIndex ==
    UNION {{[tstamp |-> Get(model_call, m)[j].tstamp, model |-> m,
             actor |-> Get(model_call, m)[j].user_id] :
                j \in 1..Len(Get(model_call, m))} : m \in KeySet(model_call)}

EventsOfUserIndex ==
    UNION {{[tstamp |-> Get(user_call, u)[j].tstamp,
             model |-> Get(user_call, u)[j].model, actor |-> u] :
                j \in 1..Len(Get(user_call, u))} : u \in KeySet(user_call)}

\* how many times an event is in each index
TimesInModelIndex(e) ==
    IF ~Has(model_call, e.model) THEN 0
    ELSE Cardinality({j \in 1..Len(Get(model_call, e.model)) :
                         Get(model_call, e.model)[j] =
                             [tstamp |-> e.tstamp, user_id |-> e.actor]})

TimesInUserIndex(e) ==
    IF ~Has(user_call, e.actor) THEN 0
    ELSE Cardinality({j \in 1..Len(Get(user_call, e.actor)) :
                         Get(user_call, e.actor)[j] =
                             [tstamp |-> e.tstamp, model |-> e.model]})

\* C29 (index agreement): once a cycle has published, the two indices hold the
\* same events, each as many times in the one as in the other: every event of
\* model_call is under its actor in user_call and every event of user_call is
\* under its model in model_call; the number of events is the same in both;
\* the hourly counts of the models and the hourly total_calls of the users,
\* taken at one time (the cached views, or both statistics now), add up to
\* the same number.
C29_IndexAgreement ==
    task.pc = "sleep" =>
        /\ \A e \in EventsOfModelIndex \cup EventsOfUserIndex :
               TimesInModelIndex(e) = TimesInUserIndex(e)
        /\ SumSeq([i \in 1..Len(model_call) |-> Len(model_call[i][2])])
               = SumSeq([i \in 1..Len(user_call) |-> Len(user_call[i][2])])
        /\ SumSeq([i \in 1..Len(model_call_stats_hour) |-> model_call_stats_hour[i][2]])
               = SumSeq([i \in 1..Len(user_call_stats_hour) |->
                            user_call_stats_hour[i][2].total_calls])
        /\ LET ms == get_model_call_stats(None, DEFAULT_MOST_RECENT_MIN, NoK)
               us == get_user_call_stats(None, DEFAULT_MOST_RECENT_MIN, NoK)
           IN  SumSeq([i \in 1..Len(ms) |-> ms[i][2]])
                   = SumSeq([i \in 1..Len(us) |-> us[i][2].total_calls])

\* four events of two models by two users are in both indices, two of them
\* inside the hour
C29_Witness ==
    /\ task.pc = "sleep"
    /\ Cardinality(EventsOfModelIndex) = 4
    /\ EventsOfModelIndex = EventsOfUserIndex
    /\ Len(model_call) = 2
    /\ Len(user_call) = 2
    /\ SumSeq([i \in 1..Len(model_call_stats_hour) |-> model_call_stats_hour[i][2]]) = 2
    /\ SumSeq([i \in 1..Len(user_call_stats_hour) |->
                  user_call_stats_hour[i][2].total_calls]) = 2

\* C30 (the hour view is contained in the day view): the cached hourly and
\* daily model views have the same models, each with an hourly count that is
\* at most its daily count; every user of the cached hourly user view is in
\* the daily one, with every model of its hourly call_dict in its daily
\* call_dict, the hourly count at most the daily count, and so for total_calls.
C30_HourWithinDay ==
    /\ KeySet(model_call_stats_hour) = KeySet(model_call_stats_day)
    /\ \A m \in KeySet(model_call_stats_hour) :
           Get(model_call_stats_hour, m) <= Get(model_call_stats_day, m)
    /\ \A u \in KeySet(user_call_stats_hour) :
           /\ Has(user_call_stats_day, u)
           /\ LET hour == Get(user_call_stats_hour, u)
                  day  == Get(user_call_stats_day, u)
              IN  /\ hour.total_calls <= day.total_calls
                  /\ \A m \in KeySet(hour.call_dict) :
                         /\ Has(day.call_dict, m)
                         /\ Get(hour.call_dict, m) <= Get(day.call_dict, m)

\* M1 has one call in the hour and two in the day, both by u1
C30_Witness ==
    /\ task.pc = "sleep"
    /\ Get(model_call_stats_hour, M1) = 1
    /\ Get(model_call_stats_day, M1) = 2
    /\ Get(user_call_stats_hour, "u1").call_dict = <<<<M1, 1>>>>
    /\ Get(user_call_stats_day, "u1").call_dict = <<<<M1, 2>>>>
    /\ Has(user_call_stats_hour, "u2")

-----------------------------------------------------------------------------
(* Claims C31-C32 *)

\* C31 (on-demand counts only shrink between refreshes): while the task
\* sleeps after a cycle, with a clock that does not go back,
\* get_model_call_stats with the 60-minute window gives every model a count
\* that is at most its count in the cached hourly view, and
\* get_user_call_stats with the 60-minute window has at most as many users as
\* get_num_users_hr returns, which is the size of the cached hourly user view.
C31_OnDemandOnlyShrinks ==
    task.pc = "sleep" =>
        /\ LET stats == get_model_call_stats(None, DEFAULT_MOST_RECENT_MIN, NoK)
           IN  /\ KeySet(stats) = KeySet(model_call_stats_hour)
               /\ \A m \in KeySet(stats) :
                      Get(stats, m) <= Get(model_call_stats_hour, m)
        /\ get_num_users(DEFAULT_MOST_RECENT_MIN) <= Len(user_call_stats_hour)
        /\ (Answered("get_model_call_stats") /\ resp.args[2] = DEFAULT_MOST_RECENT_MIN) =>
               \A m \in KeySet(Get(resp.body, "model_call_stats")) :
                   /\ Has(model_call_stats_hour, m)
                   /\ Get(Get(resp.body, "model_call_stats"), m)
                          <= Get(model_call_stats_hour, m)
        /\ (Answered("get_user_call_stats") /\ resp.args[2] = DEFAULT_MOST_RECENT_MIN) =>
               Len(Get(resp.body, "user_call_stats")) <= Len(user_call_stats_hour)
        /\ Answered("get_num_users_hr") =>
               Get(resp.body, "num_users") = Len(user_call_stats_hour)

\* an hour after the cycle, the statistics of the hour give M1 no call where
\* the cached view has one, and no user where the cached view has two
C31_Witness ==
    /\ task.pc = "sleep"
    /\ now >= SwapTime + 60 * 60
    /\ Answered("get_model_call_stats")
    /\ resp.args = <<None, DEFAULT_MOST_RECENT_MIN, NoK>>
    /\ Get(Get(resp.body, "model_call_stats"), M1) = 0
    /\ Get(model_call_stats_hour, M1) = 1
    /\ get_num_users(DEFAULT_MOST_RECENT_MIN) = 0
    /\ Len(user_call_stats_hour) = 2

\* a dict restricted to one key
Restricted(dict, key) == SelectSeq(dict, LAMBDA e : e[1] = key)

\* C32 (model filter and models without calls): at any time and for every
\* window, get_model_call_stats without target_model and without top_k has
\* the models of model_call as its keys, each once, a model without a request
\* in the window with the count 0; with target_model = m and no top_k it gives
\* that result restricted to m; get_user_call_stats with target_model = m and
\* no top_k has the users whose unfiltered call_dict has the key m, each with
\* a total_calls equal to that count.  The responses of the two handlers are
\* these results.
C32_ModelFilter ==
    /\ \A w \in QueryWindows :
           LET all_models == get_model_call_stats(None, w, NoK)
               all_users  == get_user_call_stats(None, w, NoK)
           IN  /\ KeySet(all_models) = KeySet(model_call)
               /\ Len(all_models) = Len(model_call)
               /\ \A m \in KeySet(model_call) :
                      Get(all_models, m) = NumSince(Get(model_call, m), w)
               /\ \A m \in Models :
                      /\ get_model_call_stats(m, w, NoK) = Restricted(all_models, m)
                      /\ LET of_m == get_user_call_stats(m, w, NoK)
                         IN  /\ KeySet(of_m) = {u \in KeySet(all_users) :
                                                   Has(Get(all_users, u).call_dict, m)}
                             /\ \A u \in KeySet(of_m) :
                                    Get(of_m, u).total_calls =
                                        Get(Get(all_users, u).call_dict, m)
    /\ (Answered("get_model_call_stats") /\ resp.args[3] = NoK) =>
           Get(resp.body, "model_call_stats") =
               IF resp.args[1] = None
               THEN get_model_call_stats(None, resp.args[2], NoK)
               ELSE Restricted(get_model_call_stats(None, resp.args[2], NoK), resp.args[1])
    /\ (Answered("get_user_call_stats") /\ resp.args[3] = NoK /\ resp.args[1] # None) =>
           LET all_users == get_user_call_stats(None, resp.args[2], NoK)
               of_m      == Get(resp.body, "user_call_stats")
           IN  /\ KeySet(of_m) = {u \in KeySet(all_users) :
                                     Has(Get(all_users, u).call_dict, resp.args[1])}
               /\ \A u \in KeySet(of_m) :
                      Get(of_m, u).total_calls =
                          Get(Get(all_users, u).call_dict, resp.args[1])

\* M3 has one request, a day old, by u2: the statistics of the hour have M3
\* with the count 0 and have no u2; filtered to M3 they are {M3: 0}, and the
\* user statistics filtered to M2 give u3 its 7 calls
C32_Witness ==
    /\ Answered("get_model_call_stats")
    /\ resp.args = <<None, DEFAULT_MOST_RECENT_MIN, NoK>>
    /\ Get(resp.body, "model_call_stats") = <<<<M1, 3>>, <<M3, 0>>, <<M2, 7>>>>
    /\ Has(user_call, "u2")
    /\ ~Has(get_user_call_stats(None, DEFAULT_MOST_RECENT_MIN, NoK), "u2")
    /\ get_model_call_stats(M3, DEFAULT_MOST_RECENT_MIN, NoK) = <<<<M3, 0>>>>
    /\ Get(get_user_call_stats(M2, DEFAULT_MOST_RECENT_MIN, NoK), "u3").total_calls = 7

=============================================================================
